---- MODULE Spec2Model ----
(***************************************************************************)
(* Path reconstruction for open files of a Linux task, as implemented by   *)
(* LinuxUtilities in volatility/framework/symbols/linux/__init__.py.       *)
(*                                                                         *)
(* The memory snapshot is a record of field tables (mem).  A field value   *)
(* of Bad means that reading the field raises InvalidAddressException; 0   *)
(* is the null pointer.  Strings are sequences of one-character strings,   *)
(* so that strip, join, startswith, find, replace, slicing and number      *)
(* formatting are computed character by character.                         *)
(***************************************************************************)
EXTENDS Integers, Sequences, FiniteSets, TLC

VARIABLES
    mem,        \* the snapshot: field name -> object index -> value (read-only)
    pc,         \* position of the enumeration / resolution in progress
    fd_num,     \* index of the descriptor slot the generator looks at next
    filp,       \* file reference of the slot being resolved
    via,        \* how the current path is produced: "none" (early return), "file"
                \* (path_for_file calls _get_path_file), "symbol" (resolver, by
                \* symbol) or "dname" (resolver calls _get_path_file)
    rdentry,    \* _do_get_path: root dentry argument
    rmnt,       \* _do_get_path: root mount argument
    dentry,     \* _do_get_path: current dentry (loop variable)
    vfsmnt,     \* _do_get_path: current mount (loop variable)
    ret_path,   \* _do_get_path: collected segments, root-most first
    overflow,   \* TRUE once ret_path was cut to its last MaxSegs insertions
    ret,        \* string returned by the last finished call
    yielded     \* triples the generator has yielded so far

vars == <<mem, pc, fd_num, filp, via, rdentry, rmnt, dentry, vfsmnt,
          ret_path, overflow, ret, yielded>>

-----------------------------------------------------------------------------
(* Bounds of the model. *)

\* number of fields of the well-formed base snapshot that are overwritten
MaxCorrupt == 1

\* segments of ret_path kept per walk; a walk that needs more is in a cycle
MaxSegs == 8

\* the corruption threshold of files_descriptors_for_process
MaxFdsLimit == 500000

Bad == -1
Null == 0

-----------------------------------------------------------------------------
(* Strings: sequences of characters. *)

Slash == "/"

RECURSIVE LStrip(_)
LStrip(s) == IF s # <<>> /\ Head(s) = Slash THEN LStrip(Tail(s)) ELSE s

RECURSIVE RStrip(_)
RStrip(s) ==
    IF s # <<>> /\ s[Len(s)] = Slash THEN RStrip(SubSeq(s, 1, Len(s) - 1)) ELSE s

\* str.strip('/')
Strip(s) == RStrip(LStrip(s))

\* str.startswith(p)
StartsWith(s, p) == Len(s) >= Len(p) /\ SubSeq(s, 1, Len(p)) = p

\* str.find(c) # -1
Contains(s, c) == \E i \in 1..Len(s) : s[i] = c

\* str.replace(c, "")
RECURSIVE RemoveChar(_, _)
RemoveChar(s, c) ==
    IF s = <<>> THEN <<>>
    ELSE IF Head(s) = c THEN RemoveChar(Tail(s), c)
    ELSE <<Head(s)>> \o RemoveChar(Tail(s), c)

\* s[:-1]
DropLast(s) == IF s = <<>> THEN <<>> ELSE SubSeq(s, 1, Len(s) - 1)

\* '/'.join(segs)
RECURSIVE Join(_)
Join(segs) ==
    IF segs = <<>> THEN <<>>
    ELSE IF Len(segs) = 1 THEN segs[1]
    ELSE segs[1] \o <<Slash>> \o Join(Tail(segs))

\* [p for p in segs if p != ""]
RECURSIVE NonEmpty(_)
NonEmpty(segs) ==
    IF segs = <<>> THEN <<>>
    ELSE IF Head(segs) = <<>> THEN NonEmpty(Tail(segs))
    ELSE <<Head(segs)>> \o NonEmpty(Tail(segs))

Digit(k) == <<"0", "1", "2", "3", "4", "5", "6", "7", "8", "9",
              "a", "b", "c", "d", "e", "f">>[k + 1]

\* "{0}".format(n) and "{0:d}".format(n), n >= 0
RECURSIVE ToDec(_)
ToDec(n) == IF n < 10 THEN <<Digit(n)>> ELSE ToDec(n \div 10) \o <<Digit(n % 10)>>

\* "{0:x}".format(n), n >= 0
RECURSIVE ToHex(_)
ToHex(n) == IF n < 16 THEN <<Digit(n)>> ELSE ToHex(n \div 16) \o <<Digit(n % 16)>>

StrSocketColon == <<"s", "o", "c", "k", "e", "t", ":">>
StrPipeColon == <<"p", "i", "p", "e", ":">>
StrInotify == <<"i", "n", "o", "t", "i", "f", "y">>
StrSocket == <<"s", "o", "c", "k", "e", "t">>
StrPipe == <<"p", "i", "p", "e">>
StrAnonInode == <<"a", "n", "o", "n", "_", "i", "n", "o", "d", "e">>
StrUnsupported == <<"<", "u", "n", "s", "u", "p", "p", "o", "r", "t", "e", "d", " ",
                    "d", "_", "o", "p", " ", "s", "y", "m", "b", "o", "l", ":", " ">>
StrInvalidDname == <<"<", "i", "n", "v", "a", "l", "i", "d", " ",
                     "d", "_", "d", "n", "a", "m", "e", " ",
                     "p", "o", "i", "n", "t", "e", "r", ">", " ">>

\* ":[{0}]".format(ino)
InoSuffix(ino) == <<":", "[">> \o ToDec(ino) \o <<"]">>

-----------------------------------------------------------------------------
(* The snapshot. *)

\* names a dentry's d_name can hold, by index; index 0 is the unreadable name
NameTable == <<
    <<"/">>,
    <<"a">>,
    <<"b">>,
    <<"c">>,
    StrSocketColon,
    <<"x">>,
    <<"s", "o", "c", "k", "e", "t", ":", "1", "2">>,
    <<"p", "i", "p", "e", ":", "[", "/", "7", "]">>,
    StrInotify >>

\* symbols the symbol space holds, by index
SymbolTable == <<
    <<"s", "o", "c", "k", "f", "s", "_", "d", "n", "a", "m", "e">>,
    <<"p", "i", "p", "e", "f", "s", "_", "d", "n", "a", "m", "e">>,
    <<"a", "n", "o", "n", "_", "i", "n", "o", "d", "e", "f", "s", "_",
      "d", "n", "a", "m", "e">>,
    <<"s", "i", "m", "p", "l", "e", "_", "d", "n", "a", "m", "e">>,
    <<"n", "s", "_", "d", "n", "a", "m", "e">> >>

SymSockfs == SymbolTable[1]
SymPipefs == SymbolTable[2]
SymAnon == SymbolTable[3]
SymSimple == SymbolTable[4]

\* code addresses a d_dname pointer can hold, and the symbols located there
CodeAddrs == 26..32
SymbolsAt(addr) ==
    CASE addr = 26 -> <<SymSockfs>>
      [] addr = 27 -> <<SymPipefs>>
      [] addr = 28 -> <<SymAnon>>
      [] addr = 29 -> <<SymSimple>>
      [] addr = 30 -> <<SymbolTable[5]>>
      [] addr = 31 -> <<>>
      [] OTHER -> <<SymSockfs, SymPipefs>>

Dentries == 1..7
Mounts == 1..3
Inodes == 1..7
DentryOps == 1..2
Files == 1..4
Slots == 1..5

(* The well-formed base snapshot: rootfs (mount 1, root dentry 1) holds    *)
(* /a and /a/b; mount 2 (root dentry 4) is mounted on /a/b and holds c; a  *)
(* pseudo filesystem (mount 3, root dentry 7) holds the socket dentry 6.   *)
Base == [
    d_name      |-> <<1, 2, 3, 1, 4, 5, 6>>,
    d_parent    |-> <<1, 1, 2, 4, 4, 6, 7>>,
    d_inode     |-> <<1, 2, 3, 4, 5, 6, 7>>,
    d_op        |-> <<1, 1, 0, 1, 1, 0, 2>>,
    i_ino       |-> <<2, 11, 12, 2, 15, 305, 7>>,
    d_dname     |-> <<0, 27>>,
    has_d_dname |-> <<1>>,
    mnt_root    |-> <<1, 4, 7>>,
    mnt_parent  |-> <<1, 1, 3>>,
    mnt_mountpoint |-> <<1, 3, 7>>,
    f_dentry    |-> <<3, 5, 6, 7>>,
    f_vfsmnt    |-> <<1, 2, 3, 3>>,
    root_dentry |-> <<1>>,
    root_mnt    |-> <<1>>,
    fds         |-> <<1>>,
    max_fds     |-> <<5>>,
    fd          |-> <<1, 0, 2, 3, 4>> ]

\* the values a corrupted field can hold
FieldValues(f) ==
    CASE f = "d_name" -> 0..Len(NameTable)
      [] f \in {"d_parent", "mnt_root", "mnt_mountpoint", "f_dentry", "root_dentry"}
            -> {Bad, Null} \cup Dentries
      [] f \in {"mnt_parent", "f_vfsmnt", "root_mnt"} -> {Bad, Null} \cup Mounts
      [] f = "d_inode" -> {Bad} \cup Inodes
      [] f = "d_op" -> {Bad, Null} \cup DentryOps
      [] f = "i_ino" -> {Bad, 0, 7}
      [] f = "d_dname" -> {Bad, Null} \cup CodeAddrs
      [] f = "has_d_dname" -> {0, 1}
      [] f = "fds" -> {Bad, Null, 1}
      [] f = "max_fds" -> {Bad, 0, 3, 5, MaxFdsLimit, MaxFdsLimit + 1, 600000}
      [] f = "fd" -> {Null} \cup Files

Patches ==
    UNION { { [f |-> f, o |-> o, v |-> v] : o \in DOMAIN Base[f], v \in FieldValues(f) }
            : f \in DOMAIN Base }

RECURSIVE ApplyAll(_, _)
ApplyAll(m, ps) ==
    IF ps = <<>> THEN m
    ELSE ApplyAll([m EXCEPT ![Head(ps).f][Head(ps).o] = Head(ps).v], Tail(ps))

\* the base snapshot with at most MaxCorrupt of the given overwrites applied
Corrupted(P) ==
    { ApplyAll(Base, ps) : ps \in UNION { [1..n -> P] : n \in 0..MaxCorrupt } }

Snapshots == Corrupted(Patches)

\* the fields that make up the dentry and mount graph the path walk moves in
GraphFields == {"d_name", "d_parent", "mnt_root", "mnt_parent", "mnt_mountpoint",
                "f_dentry", "f_vfsmnt", "root_dentry", "root_mnt"}

GraphSnapshots == Corrupted({ p \in Patches : p.f \in GraphFields })

\* field read on a typed reference: the value, or Bad when the read fails
Rd(f, o) == IF o \in DOMAIN mem[f] THEN mem[f][o] ELSE Bad

\* dentry.path(): the name, or "" when it cannot be read
DentryPath(d) ==
    LET n == Rd("d_name", d) IN IF n \in DOMAIN NameTable THEN NameTable[n] ELSE <<>>

\* one entry of the decoded pointer array; memory past the table reads as null
Slot(i) == IF i + 1 \in DOMAIN mem.fd THEN mem.fd[i + 1] ELSE Null

-----------------------------------------------------------------------------
(* _do_get_path *)

\* the loop condition
LoopCond(d, m, rd, rm) == d # rd \/ m # rm

\* faulty variant of Prepend: the segment is appended instead of inserted at the front
PrependAtEnd(path, seg) == SubSeq(path \o <<seg>>, 1, IF Len(path) < MaxSegs THEN Len(path) + 1 ELSE MaxSegs)

\* ret_path.insert(0, seg); the model keeps the MaxSegs root-most segments
Prepend(path, seg) == SubSeq(<<seg>> \o path, 1, IF Len(path) < MaxSegs THEN Len(path) + 1 ELSE MaxSegs)

\* faulty variant of IsGlobalRoot: the global root is looked for as a null parent
IsGlobalRootNull(mp, m) == mp = Null

\* vfsmnt.get_mnt_parent() == vfsmnt
IsGlobalRoot(mp, m) == mp = m

\* faulty variant of NoSegments: a single collected segment counts as none
NoSegmentsOffByOne(path) == Len(path) <= 1

\* not ret_path
NoSegments(path) == path = <<>>

\* ret_val.startswith(("socket:", "pipe:"))
HasSpecialPrefix(rv) == StartsWith(rv, StrSocketColon) \/ StartsWith(rv, StrPipeColon)

\* the inode number read under try/except: 0 when a read fails
InoOrZero(d) ==
    LET i == Rd("d_inode", d) IN
    IF i = Bad THEN 0
    ELSE LET n == Rd("i_ino", i) IN IF n = Bad THEN 0 ELSE n

\* faulty variant of WithInode: the last character is not removed
WithInodeNoStrip(rv, ino) == rv \o InoSuffix(ino)

\* ret_val[:-1] + ":[{0}]".format(ino)
WithInode(rv, ino) == DropLast(rv) \o InoSuffix(ino)

\* everything after the loop: the returned string
Finish(path, d) ==
    IF NoSegments(path) THEN <<>>
    ELSE LET rv == Join(NonEmpty(path)) IN
         IF HasSpecialPrefix(rv)
         THEN IF ~Contains(rv, "]") THEN WithInode(rv, InoOrZero(d))
              ELSE RemoveChar(rv, Slash)
         ELSE IF rv # StrInotify THEN <<Slash>> \o rv
         ELSE rv

\* the loop leaves by break
Break ==
    /\ pc' = "post"
    /\ UNCHANGED <<dentry, vfsmnt>>

Raise ==
    /\ pc' = "raised"
    /\ UNCHANGED <<dentry, vfsmnt>>

\* the mount boundary branch of the loop body
CrossMount ==
    LET mp == Rd("mnt_parent", vfsmnt) IN
    IF mp = Bad THEN Raise
    ELSE IF IsGlobalRoot(mp, vfsmnt) THEN Break
    ELSE LET mpt == Rd("mnt_mountpoint", vfsmnt) IN
         IF mpt = Bad THEN Raise
         ELSE /\ dentry' = mpt
              /\ vfsmnt' = mp
              /\ pc' = "walk"

\* one iteration of the while loop
WalkIter ==
    /\ pc = "walk"
    /\ LoopCond(dentry, vfsmnt, rdentry, rmnt)
    /\ LET dname == DentryPath(dentry) IN
       IF dname = <<>>
       THEN Break /\ UNCHANGED <<ret_path, overflow>>
       ELSE /\ ret_path' = Prepend(ret_path, Strip(dname))
            /\ overflow' = (overflow \/ Len(ret_path) >= MaxSegs)
            /\ LET mr == Rd("mnt_root", vfsmnt) IN
               IF mr = Bad THEN Raise
               ELSE IF dentry = mr THEN CrossMount
               ELSE LET parent == Rd("d_parent", dentry) IN
                    IF parent = Bad THEN Raise
                    ELSE IF dentry = parent THEN CrossMount
                    ELSE /\ dentry' = parent
                         /\ pc' = "walk"
                         /\ UNCHANGED vfsmnt
    /\ UNCHANGED <<mem, fd_num, filp, via, rdentry, rmnt, ret, yielded>>

\* the loop is over: build and return the string
WalkExit ==
    /\ \/ pc = "post"
       \/ pc = "walk" /\ ~LoopCond(dentry, vfsmnt, rdentry, rmnt)
    /\ ret' = Finish(ret_path, dentry)
    /\ pc' = "walked"
    /\ UNCHANGED <<mem, fd_num, filp, via, rdentry, rmnt, dentry, vfsmnt,
                   ret_path, overflow, yielded>>

-----------------------------------------------------------------------------
(* _get_path_file *)

GetPathFile ==
    /\ pc = "getpath"
    /\ LET rd == Rd("root_dentry", 1)
           rm == Rd("root_mnt", 1)
           d == Rd("f_dentry", filp)
           m == Rd("f_vfsmnt", filp)
       IN IF Bad \in {rd, rm, d, m}
          THEN /\ pc' = "raised"
               /\ UNCHANGED <<rdentry, rmnt, dentry, vfsmnt, ret_path, overflow>>
          ELSE /\ rdentry' = rd
               /\ rmnt' = rm
               /\ dentry' = d
               /\ vfsmnt' = m
               /\ ret_path' = <<>>
               /\ overflow' = FALSE
               /\ pc' = "walk"
    /\ UNCHANGED <<mem, fd_num, filp, via, ret, yielded>>

\* control is back in the caller of _get_path_file
WalkReturn ==
    /\ pc = "walked"
    /\ IF via = "file"
       THEN pc' = "yield" /\ UNCHANGED ret
       ELSE LET i == Rd("d_inode", Rd("f_dentry", filp))
                n == Rd("i_ino", i)
            IN IF n = Bad
               THEN pc' = "raised" /\ UNCHANGED ret
               ELSE pc' = "yield" /\ ret' = ret \o InoSuffix(n)
    /\ UNCHANGED <<mem, fd_num, filp, via, rdentry, rmnt, dentry, vfsmnt,
                   ret_path, overflow, yielded>>

-----------------------------------------------------------------------------
(* _get_new_sock_pipe_path *)

\* the prefix chosen for a symbol other than simple_dname
PreName(sym) ==
    IF sym = SymSockfs THEN StrSocket
    ELSE IF sym = SymAnon THEN StrAnonInode
    ELSE IF sym = SymPipefs THEN StrPipe
    ELSE StrUnsupported \o sym \o <<">">>

SockPipePath ==
    /\ pc = "resolve"
    /\ LET d == Rd("f_dentry", filp)
           sym_addr == Rd("d_dname", Rd("d_op", d))
           symbs == SymbolsAt(sym_addr)
       IN IF Len(symbs) = 1
          THEN IF symbs[1] = SymSimple
               THEN /\ pc' = "getpath"
                    /\ via' = "dname"
                    /\ UNCHANGED ret
               ELSE LET n == Rd("i_ino", Rd("d_inode", d)) IN
                    IF n = Bad
                    THEN pc' = "raised" /\ UNCHANGED <<via, ret>>
                    ELSE /\ ret' = PreName(symbs[1]) \o InoSuffix(n)
                         /\ pc' = "yield"
                         /\ UNCHANGED via
          ELSE /\ ret' = StrInvalidDname \o ToHex(sym_addr)
               /\ pc' = "yield"
               /\ UNCHANGED via
    /\ UNCHANGED <<mem, fd_num, filp, rdentry, rmnt, dentry, vfsmnt,
                   ret_path, overflow, yielded>>

-----------------------------------------------------------------------------
(* path_for_file *)

\* the guarded test of dentry.d_op.d_dname; a failed read counts as absent
DnameIsValid(d) ==
    LET op == Rd("d_op", d) IN
    /\ op \notin {Bad, Null}
    /\ Rd("has_d_dname", 1) = 1
    /\ Rd("d_dname", op) \notin {Bad, Null}

PathForFile ==
    /\ pc = "facade"
    /\ LET d == Rd("f_dentry", filp) IN
       IF d = Bad \/ d = Null
       THEN /\ ret' = <<>>
            /\ pc' = "yield"
            /\ via' = "none"
       ELSE IF DnameIsValid(d)
       THEN /\ pc' = "resolve"
            /\ via' = "symbol"
            /\ UNCHANGED ret
       ELSE /\ pc' = "getpath"
            /\ via' = "file"
            /\ UNCHANGED ret
    /\ UNCHANGED <<mem, fd_num, filp, rdentry, rmnt, dentry, vfsmnt,
                   ret_path, overflow, yielded>>

-----------------------------------------------------------------------------
(* files_descriptors_for_process *)

\* faulty variant of TooManyFds: the threshold itself is rejected too
TooManyFdsInclusive(n) == n >= MaxFdsLimit

\* the corruption check on the declared descriptor count
TooManyFds(n) == n > MaxFdsLimit

\* indexes of the non-null slots the loop has still to reach
Pending(from, max_fds) ==
    { i \in from..(IF max_fds < Len(mem.fd) THEN max_fds ELSE Len(mem.fd)) - 1 :
        Slot(i) # Null }

Min(S) == CHOOSE x \in S : \A y \in S : x <= y

\* the generator runs from its start to the loop over the decoded array
Enumerate ==
    /\ pc = "start"
    /\ LET fd_table == Rd("fds", 1)
           max_fds == Rd("max_fds", 1)
       IN IF fd_table = Bad THEN pc' = "raised"
          ELSE IF fd_table = Null THEN pc' = "done"
          ELSE IF max_fds = Bad THEN pc' = "raised"
          ELSE IF TooManyFds(max_fds) THEN pc' = "done"
          ELSE pc' = "scan"
    /\ UNCHANGED <<mem, fd_num, filp, via, rdentry, rmnt, dentry, vfsmnt,
                   ret_path, overflow, ret, yielded>>

\* the loop advances to the next non-null slot and calls path_for_file, or ends
NextFd ==
    /\ pc = "scan"
    /\ LET todo == Pending(fd_num, Rd("max_fds", 1)) IN
       IF todo = {}
       THEN /\ pc' = "done"
            /\ UNCHANGED <<fd_num, filp>>
       ELSE /\ fd_num' = Min(todo)
            /\ filp' = Slot(Min(todo))
            /\ pc' = "facade"
    /\ UNCHANGED <<mem, via, rdentry, rmnt, dentry, vfsmnt,
                   ret_path, overflow, ret, yielded>>

\* yield fd_num, filp, full_path
Yield ==
    /\ pc = "yield"
    /\ yielded' = Append(yielded, <<fd_num, filp, ret>>)
    /\ fd_num' = fd_num + 1
    /\ pc' = "scan"
    /\ UNCHANGED <<mem, filp, via, rdentry, rmnt, dentry, vfsmnt,
                   ret_path, overflow, ret>>

-----------------------------------------------------------------------------

\* the snapshot is well formed: parent chains of dentries and of mounts are
\* finite and end at a self-parent, and every name is readable and non-empty
RECURSIVE EndsAtSelf(_, _, _, _)
EndsAtSelf(f, objs, o, fuel) ==
    LET p == Rd(f, o) IN
    /\ p \in objs
    /\ (p = o \/ (fuel > 0 /\ EndsAtSelf(f, objs, p, fuel - 1)))

WellFormed ==
    /\ \A d \in Dentries : EndsAtSelf("d_parent", Dentries, d, Cardinality(Dentries))
    /\ \A m \in Mounts : EndsAtSelf("mnt_parent", Mounts, m, Cardinality(Mounts))
    /\ \A d \in Dentries : DentryPath(d) # <<>>

\* no call has started yet
Idle ==
    /\ pc = "start"
    /\ fd_num = 0
    /\ filp = Null
    /\ via = "none"
    /\ rdentry = Null
    /\ rmnt = Null
    /\ dentry = Null
    /\ vfsmnt = Null
    /\ ret_path = <<>>
    /\ overflow = FALSE
    /\ ret = <<>>
    /\ yielded = <<>>

Init == mem \in Snapshots /\ Idle

\* the enumeration is run on a well-formed snapshot
WellFormedInit == mem \in GraphSnapshots /\ Idle /\ WellFormed

Next ==
    \/ Enumerate
    \/ NextFd
    \/ PathForFile
    \/ SockPipePath
    \/ GetPathFile
    \/ WalkIter
    \/ WalkExit
    \/ WalkReturn
    \/ Yield

Spec == Init /\ [][Next]_vars

\* a call in progress always takes its next step
FairSpec == Spec /\ WF_vars(Next)

WellFormedSpec == WellFormedInit /\ [][Next]_vars /\ WF_vars(Next)

-----------------------------------------------------------------------------
(* Vocabulary of the properties. *)

\* arguments of the walk in progress or just finished
StartDentry == Rd("f_dentry", filp)
StartMnt == Rd("f_vfsmnt", filp)

\* the dentries from d up to, and without, stop, along d_parent; a 0 entry
\* marks a chain that does not reach stop
RECURSIVE UpTo(_, _, _)
UpTo(d, stop, fuel) ==
    IF d = stop THEN <<>>
    ELSE IF fuel = 0 \/ d \notin Dentries \/ Rd("d_parent", d) = d THEN <<0>>
    ELSE <<d>> \o UpTo(Rd("d_parent", d), stop, fuel - 1)

Reaches(chain) == \A i \in 1..Len(chain) : chain[i] # 0

\* the names of a leaf-to-root chain, in root-to-leaf order
NamesOf(chain) == [i \in 1..Len(chain) |-> DentryPath(chain[Len(chain) + 1 - i])]

\* names a directory can hold: readable, non-empty, without "/"
PlainNames(names) ==
    \A i \in 1..Len(names) : names[i] # <<>> /\ ~Contains(names[i], Slash)

Distinct(names) ==
    \A i, j \in 1..Len(names) : i # j => names[i] # names[j]

\* a joined value that the post-processing treats as a synthetic name
Synthetic(rv) == HasSpecialPrefix(rv) \/ rv = StrInotify

\* the walk left its loop because the name of the current dentry was empty
EmptyNameStop ==
    /\ pc = "walked"
    /\ LoopCond(dentry, vfsmnt, rdentry, rmnt)
    /\ DentryPath(dentry) = <<>>

\* the joined value of the walk just finished
Joined == Join(NonEmpty(ret_path))

RECURSIVE SortedSeq(_)
SortedSeq(S) == IF S = {} THEN <<>> ELSE <<Min(S)>> \o SortedSeq(S \ {Min(S)})

-----------------------------------------------------------------------------
(* C1 *)

\* C1: path_for_file never raises: whichever field reads fail, a call made for
\* a file never ends in an error outcome.
C1_NeverRaises == ~(pc = "raised" /\ filp # Null)

-----------------------------------------------------------------------------
(* C2 *)

\* C2 as stated: when the walk stops at a dentry whose name is unreadable or
\* empty, it returns "" for the whole call, also after segments were collected.
C2_EmptyNameYieldsEmpty == EmptyNameStop => ret = <<>>

\* C2 as amended: when the walk stops at a dentry whose name is unreadable or
\* empty, it returns "" exactly when no segment was collected before; otherwise
\* it returns the non-empty path built from the collected segments, which for
\* an ordinary path is "/" followed by those segments joined with "/".
C2_EmptyNameYieldsPartial ==
    EmptyNameStop =>
        /\ (ret = <<>>) <=> (ret_path = <<>>)
        /\ (ret_path # <<>> /\ ~Synthetic(Joined)) => ret = <<Slash>> \o Joined

C2_Witness == EmptyNameStop /\ Len(ret_path) >= 1 /\ ret # <<>>

-----------------------------------------------------------------------------
(* C3 *)

\* C3: the path walk terminates on every input graph, corrupted ones included:
\* a walk in its loop eventually leaves it.
C3_WalkTerminates == (pc = "walk") ~> (pc # "walk")

-----------------------------------------------------------------------------
(* C4 *)

\* the start dentry lies N >= 1 parent hops below the root dentry, in the root
\* mount, no dentry of the route is the root of that mount, and the names of
\* the route are plain and distinct
C4_Route == UpTo(StartDentry, rdentry, Cardinality(Dentries))

C4_Pre ==
    /\ pc = "walked"
    /\ StartMnt = rmnt
    /\ Len(C4_Route) >= 1
    /\ Reaches(C4_Route)
    /\ \A i \in 1..Len(C4_Route) : C4_Route[i] # Rd("mnt_root", rmnt)
    /\ PlainNames(NamesOf(C4_Route))
    /\ Distinct(NamesOf(C4_Route))

\* C4 as stated: without a mount crossing the walk returns "/" followed by the
\* N names of the route joined with "/", root-most first, start dentry last.
C4_RootToLeaf == C4_Pre => ret = <<Slash>> \o Join(NamesOf(C4_Route))

\* C4 as amended: the same, provided the joined names neither start with
\* "socket:" or "pipe:" nor are literally "inotify".
C4_RootToLeafOrdinary ==
    (C4_Pre /\ ~Synthetic(Join(NamesOf(C4_Route))))
        => ret = <<Slash>> \o Join(NamesOf(C4_Route))

C4_Witness ==
    /\ C4_Pre
    /\ Len(C4_Route) >= 2
    /\ ~Synthetic(Join(NamesOf(C4_Route)))
    /\ ret = <<Slash>> \o NamesOf(C4_Route)[1] \o <<Slash>> \o NamesOf(C4_Route)[2]

-----------------------------------------------------------------------------
(* C5 *)

\* the part of the route inside the sub-mount, below its root dentry
C5_Sub == UpTo(StartDentry, Rd("mnt_root", StartMnt), Cardinality(Dentries))

\* the part of the route inside the parent mount, mountpoint included
C5_Top == UpTo(Rd("mnt_mountpoint", StartMnt), rdentry, Cardinality(Dentries))

C5_Names == NamesOf(C5_Top) \o NamesOf(C5_Sub)

C5_Pre ==
    /\ pc = "walked"
    /\ StartMnt # rmnt
    /\ Rd("mnt_parent", StartMnt) = rmnt
    /\ Rd("mnt_root", StartMnt) \in Dentries
    /\ DentryPath(Rd("mnt_root", StartMnt)) # <<>>
    /\ Len(C5_Sub) >= 1 /\ Reaches(C5_Sub)
    /\ Len(C5_Top) >= 1 /\ Reaches(C5_Top)
    /\ \A i \in 1..Len(C5_Top) : C5_Top[i] # Rd("mnt_root", rmnt)
    /\ PlainNames(C5_Names)
    /\ ~Synthetic(Join(C5_Names))

\* C5: across exactly one mount boundary the result is the parent-mount path
\* down to the mountpoint followed by the sub-mount's relative path; the root
\* dentry of the sub-mount contributes no segment.
C5_Splice == C5_Pre => ret = <<Slash>> \o Join(C5_Names)

-----------------------------------------------------------------------------
(* C6 *)

C6_Pre ==
    /\ Rd("fds", 1) \notin {Bad, Null}
    /\ Rd("max_fds", 1) # Bad
    /\ Rd("max_fds", 1) <= MaxFdsLimit

C6_Expected == SortedSeq(Pending(0, Rd("max_fds", 1)))

\* C6: once the enumeration has ended, it has yielded one triple for every
\* non-null slot, in ascending index order, each with the slot's file and a
\* string; a failure in one descriptor does not cut the later ones off.
C6_AllYielded ==
    (C6_Pre /\ pc \in {"done", "raised"}) =>
        /\ Len(yielded) = Len(C6_Expected)
        /\ \A k \in 1..Len(yielded) :
              /\ yielded[k][1] = C6_Expected[k]
              /\ yielded[k][2] = Slot(C6_Expected[k])

-----------------------------------------------------------------------------
(* C7 *)

C7_Rejected ==
    \/ Rd("fds", 1) = Null
    \/ /\ Rd("fds", 1) # Bad
       /\ Rd("max_fds", 1) # Bad
       /\ Rd("max_fds", 1) > MaxFdsLimit

\* C7: a null table address or a declared max-fds above 500,000 gives an empty
\* sequence with no slot decoded and no path resolved; a declared max-fds of
\* exactly 500,000 is scanned like any other table.
C7_CorruptionCheck ==
    /\ C7_Rejected => (pc \in {"start", "done"} /\ yielded = <<>> /\ filp = Null)
    /\ (Rd("fds", 1) \notin {Bad, Null} /\ Rd("max_fds", 1) = MaxFdsLimit /\ pc = "done")
          => [k \in 1..Len(yielded) |-> yielded[k][1]] = C6_Expected

C7_Witness ==
    /\ pc = "done"
    /\ Rd("fds", 1) = 1
    /\ Rd("max_fds", 1) = 600000
    /\ \E i \in 0..(Len(mem.fd) - 1) : Slot(i) # Null
    /\ yielded = <<>>

-----------------------------------------------------------------------------
(* C8 *)

C8_Pre == pc = "walked" /\ ret_path # <<>> /\ HasSpecialPrefix(Joined)

C8_Prefix == IF StartsWith(Joined, StrSocketColon) THEN StrSocketColon ELSE StrPipeColon

C8_Bracketed(head) == head \o <<"[">> \o ToDec(InoOrZero(dentry)) \o <<"]">>

\* C8 as stated: a joined value with a "socket:" or "pipe:" prefix has every "/"
\* removed when it contains "]", and otherwise becomes the prefix followed by
\* the inode number in brackets.
C8_PrefixThenInode ==
    C8_Pre =>
        IF Contains(Joined, "]") THEN ret = RemoveChar(Joined, Slash)
        ELSE ret = C8_Bracketed(C8_Prefix)

\* C8 as amended: with "]" every "/" is removed; without "]" the result is the
\* joined value without its last character, followed by ":[<inode>]", where
\* <inode> is the inode number of the dentry the walk stopped at and 0 when it
\* cannot be read: "socket:" becomes "socket:[<inode>]".
C8_LastCharThenInode ==
    C8_Pre =>
        IF Contains(Joined, "]") THEN ret = RemoveChar(Joined, Slash)
        ELSE /\ ret = C8_Bracketed(SubSeq(Joined, 1, Len(Joined) - 1) \o <<":">>)
             /\ Joined = C8_Prefix => ret = C8_Bracketed(C8_Prefix)

C8_Witness ==
    /\ C8_Pre
    /\ ~Contains(Joined, "]")
    /\ Len(Joined) > Len(C8_Prefix)
    /\ ret # C8_Bracketed(C8_Prefix)

-----------------------------------------------------------------------------
(* C9 *)

\* C9: when d_dname resolves to simple_dname alone, the resolver returns exactly
\* the string of the path walk, with no ":[<inode>]" suffix.
C9_DelegatesEntirely == (pc = "yield" /\ via = "dname") => ret = Finish(ret_path, dentry)

-----------------------------------------------------------------------------
(* C10 *)

\* C10: on a well-formed snapshot a walk in its loop eventually leaves it, with
\* no iteration cap, also when the root pair is never reached.
C10_WellFormedTerminates == (pc = "walk" /\ WellFormed) ~> (pc # "walk")

\* a walk on a well-formed snapshot that ended at the global mount root
\* without reaching the root pair
C10_Witness ==
    /\ pc = "walked"
    /\ WellFormed
    /\ LoopCond(dentry, vfsmnt, rdentry, rmnt)
    /\ Rd("mnt_parent", vfsmnt) = vfsmnt
    /\ ret_path # <<>>

====
